---------------------------- MODULE Spec2Model ----------------------------
(***************************************************************************)
(* Model of the access-log substitution formatter of                       *)
(* source/common/formatter/substitution_formatter.h:                       *)
(*   - SubstitutionFormatParser::parse (format string -> providers),       *)
(*   - CommonFormatterBaseImpl (flat formatter),                           *)
(*   - StructFormatterBase (structured template compiler and evaluator),   *)
(* and of the test command parsers of test/common/formatter/               *)
(* command_extension.cc.                                                   *)
(*                                                                         *)
(* A std::string is a sequence of one-character strings.  Positions (pos,  *)
(* the position an error names) are 0-based as in the code; At(s, i) reads *)
(* the character at 0-based index i.                                       *)
(***************************************************************************)
EXTENDS Integers, Sequences, FiniteSets, TLC

VARIABLES
    \* ---- flat formatter (CommonFormatterBaseImpl) ----
    format,               \* constructor argument: the format string
    builtin_parsers,      \* BuiltInCommandParsersBase::commandParsers()
    command_parsers,      \* constructor argument: the user-supplied parsers
    omit_empty_values,    \* constructor argument (both formatters)
    pos,                  \* parse: the loop variable
    current_token,        \* parse: the pending literal
    formatters,           \* parse: the local provider vector
    providers_,           \* CommonFormatterBaseImpl::providers_
    pc,                   \* where the object is in its life
    error,                \* the EnvoyException that construction threw, if any
    context,              \* the context of the last evaluation call
    log_line,             \* the result of the last flat evaluation call
    \* ---- structured formatter (StructFormatterBase) ----
    format_mapping,       \* constructor argument: the template document
    preserve_types,       \* constructor argument
    struct_output_format_,\* StructFormatterBase::struct_output_format_
    output_struct,        \* the result of the last structured evaluation call
    \* ---- concurrent evaluation calls on one formatter ----
    calls                 \* per call: its position and its local variables

vars == <<format, builtin_parsers, command_parsers, omit_empty_values, pos,
          current_token, formatters, providers_, pc, error, context, log_line,
          format_mapping, preserve_types, struct_output_format_, output_struct,
          calls>>

-----------------------------------------------------------------------------
(* Bounds of the model.                                                    *)

\* Every format string of at most MaxLen characters over Alphabet is parsed.
MaxLen == 4
\* A list of the template document has at most MaxListLen elements.
MaxListLen == 2
\* Every format string of at most MaxLeafLen characters over LeafAlphabet is
\* the string leaf of a structured template.
MaxLeafLen == 3
\* At most NumCalls evaluation calls run on one formatter at the same time.
NumCalls == 2

-----------------------------------------------------------------------------
(* Characters and strings.                                                 *)

\* [A-Z0-9_] as far as the model's strings use it.
NameChars == {"A", "C", "X", "Y", "0", "1", "_"}
\* [0-9] as far as the model's strings use it.
DigitChars == {"0", "1"}
DigitValue == [c \in DigitChars |-> IF c = "0" THEN 0 ELSE 1]

\* The characters the exhaustively enumerated format strings are made of: the
\* token delimiter, two command-name letters, the subcommand brackets, the
\* length separator and a digit (which is also a command-name character).
Alphabet == {"%", "A", "C", "(", ")", ":", "1"}

At(s, i) == s[i + 1]
\* std::string::substr(pos)
substr(s, p) == SubSeq(s, p + 1, Len(s))

RECURSIVE StringsOfLen(_)
StringsOfLen(n) ==
    IF n = 0 THEN {<<>>}
    ELSE {Append(s, c) : s \in StringsOfLen(n - 1), c \in Alphabet}

\* Longer format strings of the grammar's documentation and of the spec's
\* examples, beyond the exhaustive bound.
SampleFormats ==
    { <<"%", "A", "%", "%", "C", "%">>,            \* two adjacent commands
      <<"1", "0", "0", "%", "%">>,                 \* "100%%"
      <<"%", "A", "(", "%", "%", ")", "%">>,       \* "%%" inside a subcommand
      <<"%", "A", "(", "C", ")", ":", "1", "0", "%">>,
      <<"(", "%", "C", "%", ")", "%", "%", "%", "A", ":", "1", "%", ":">> }

Formats == UNION {StringsOfLen(n) : n \in 0..MaxLen} \cup SampleFormats

\* absl::optional<std::string>
nullopt == [has_value |-> FALSE, value |-> <<>>]
optional(s) == [has_value |-> TRUE, value |-> s]
\* absl::optional::value_or
value_or(o, dflt) == IF o.has_value THEN o.value ELSE dflt

\* absl::optional<size_t> max_length without a value
NoLength == -1

-----------------------------------------------------------------------------
\* The command regex command_w_args_regex: "%", a name of one or more of
\* [A-Z0-9_], optionally "(" subcommand ")" where the subcommand has no ")",
\* optionally ":" and one or more digits, then "%"; anchored at the start.
\* Each group can match in one way only (the character after a name is no
\* name character, a subcommand ends at the first ")", the character after
\* the digits is no digit), so the match is computed without backtracking.

\* The first 1-based index j >= i at which s has no character of set cs.
RunEnd(s, i, cs) ==
    CHOOSE j \in i..(Len(s) + 1) :
        /\ \A k \in i..(j - 1) : s[k] \in cs
        /\ (j = Len(s) + 1 \/ s[j] \notin cs)

\* The 1-based index of the first ")" at or after i, 0 if there is none.
FirstClose(s, i) ==
    LET cl == {k \in i..Len(s) : s[k] = ")"}
    IN IF cl = {} THEN 0 ELSE CHOOSE k \in cl : \A l \in cl : k <= l

NoMatch == [matched |-> FALSE, str0 |-> <<>>, str1 |-> <<>>, str2 |-> <<>>,
            str3 |-> <<>>]

\* std::regex_search(search_space, m, command_w_args_regex): m.str(0..3).
regex_search(s) ==
    IF Len(s) = 0 \/ s[1] # "%" THEN NoMatch
    ELSE
    LET nameEnd  == RunEnd(s, 2, NameChars)
        hasParen == nameEnd <= Len(s) /\ s[nameEnd] = "("
        close    == IF hasParen THEN FirstClose(s, nameEnd + 1) ELSE 0
        hasSub   == hasParen /\ close # 0
        subEnd   == IF hasSub THEN close + 1 ELSE nameEnd
        hasColon == subEnd <= Len(s) /\ s[subEnd] = ":"
        digEnd   == IF hasColon THEN RunEnd(s, subEnd + 1, DigitChars) ELSE 0
        hasLen   == hasColon /\ digEnd > subEnd + 1
        lenEnd   == IF hasLen THEN digEnd ELSE subEnd
    IN IF nameEnd > 2 /\ lenEnd <= Len(s) /\ s[lenEnd] = "%"
       THEN [matched |-> TRUE,
             str0 |-> SubSeq(s, 1, lenEnd),
             str1 |-> SubSeq(s, 2, nameEnd - 1),
             str2 |-> IF hasSub THEN SubSeq(s, nameEnd + 1, close - 1) ELSE <<>>,
             str3 |-> IF hasLen THEN SubSeq(s, subEnd + 1, digEnd - 1) ELSE <<>>]
       ELSE NoMatch

\* absl::SimpleAtoi on a string of decimal digits.  It fails only when the
\* value does not fit size_t, which takes 20 digits: no format string of the
\* model is that long, so the conversion always succeeds here.
RECURSIVE SimpleAtoi(_)
SimpleAtoi(d) ==
    IF d = <<>> THEN 0
    ELSE 10 * SimpleAtoi(SubSeq(d, 1, Len(d) - 1)) + DigitValue[d[Len(d)]]

-----------------------------------------------------------------------------
(* Providers and command parsers.                                          *)

\* PlainStringFormatterBase(str)
PlainStringFormatter(str) == [type |-> "PlainString", str |-> str]
\* PlainNumberFormatter(num)
PlainNumberFormatter(num) == [type |-> "PlainNumber", num |-> num]
\* TestFormatter, AdditionalFormatter: the providers of the test parsers
TestFormatter == [type |-> "TestFormatter"]
AdditionalFormatter == [type |-> "AdditionalFormatter"]
\* The provider a built-in or another user-supplied parser makes of a command.
CommandFormatter(id, command, subcommand, max_length) ==
    [type |-> "Command", by |-> id, command |-> command,
     subcommand |-> subcommand, max_length |-> max_length]
\* StreamInfoFormatterBase(command, subcommand, max_length): the fallback
StreamInfoFormatter(command, subcommand, max_length) ==
    [type |-> "StreamInfo", command |-> command,
     subcommand |-> subcommand, max_length |-> max_length]

\* A null FormatterProviderPtr
nullptr == [type |-> "nullptr"]

\* The command names of the test parsers, shortened to one letter so that a
\* token fits the bound on format strings: "C" stands for
\* "COMMAND_EXTENSION", "A" for "ADDITIONAL_EXTENSION".
COMMAND_EXTENSION == <<"C">>
ADDITIONAL_EXTENSION == <<"A">>

\* A command parser is a record: its id and the command names it claims.
TestCommandParser == [id |-> "TestCommandParser", commands |-> {COMMAND_EXTENSION}]
AdditionalCommandParser ==
    [id |-> "AdditionalCommandParser", commands |-> {ADDITIONAL_EXTENSION}]
\* Parsers of the embedding code other than the two of the test file: a
\* built-in one for "A", a built-in one for "A" and "C", a user-supplied one
\* for "A" and "C".
BuiltInA == [id |-> "BuiltInA", commands |-> {<<"A">>}]
BuiltInAC == [id |-> "BuiltInAC", commands |-> {<<"A">>, <<"C">>}]
UserAC == [id |-> "UserAC", commands |-> {<<"A">>, <<"C">>}]

\* CommandParser::parse(command, subcommand, max_length): a provider, or
\* nullptr for a command that is not the parser's.
CommandParserParse(cmd, command, subcommand, max_length) ==
    IF command \notin cmd.commands THEN nullptr
    ELSE IF cmd.id = "TestCommandParser" THEN TestFormatter
    ELSE IF cmd.id = "AdditionalCommandParser" THEN AdditionalFormatter
    ELSE CommandFormatter(cmd.id, command, subcommand, max_length)

\* The provider of the first parser of the vector that returns non-null,
\* nullptr if every parser returns nullptr: one of the two loops of parse.
FirstParsed(parsers, command, subcommand, max_length) ==
    LET hits == {i \in 1..Len(parsers) :
                   CommandParserParse(parsers[i], command, subcommand,
                                      max_length) # nullptr}
    IN IF hits = {} THEN nullptr
       ELSE CommandParserParse(parsers[CHOOSE i \in hits : \A j \in hits : i <= j],
                               command, subcommand, max_length)

\* parse, "bool added" to the push of the fallback: the provider of a token.
ResolveCommandUserFirst(builtin, user, command, subcommand, max_length) ==
    LET b == FirstParsed(builtin, command, subcommand, max_length)
        u == FirstParsed(user, command, subcommand, max_length)
    IN IF u # nullptr THEN u
       ELSE IF b # nullptr THEN b
       ELSE StreamInfoFormatter(command, subcommand, max_length)
ResolveCommandFallbackUnnamed(builtin, user, command, subcommand, max_length) ==
    LET b == FirstParsed(builtin, command, subcommand, max_length)
        u == FirstParsed(user, command, subcommand, max_length)
    IN IF b # nullptr THEN b
       ELSE IF u # nullptr THEN u
       ELSE StreamInfoFormatter(<<>>, subcommand, max_length)
ResolveCommand(builtin, user, command, subcommand, max_length) ==
    LET b == FirstParsed(builtin, command, subcommand, max_length)
        u == FirstParsed(user, command, subcommand, max_length)
    IN IF b # nullptr THEN b
       ELSE IF u # nullptr THEN u
       ELSE StreamInfoFormatter(command, subcommand, max_length)

-----------------------------------------------------------------------------
(* SubstitutionFormatParser::parse.                                        *)

NoError == [what |-> "none", position |-> 0]
\* "Incorrect configuration: {}. Couldn't find valid command at position {}"
NoValidCommandOneBased(p) == [what |-> "Couldn't find valid command", position |-> p + 1]
NoValidCommand(p) == [what |-> "Couldn't find valid command", position |-> p]

\* The vector with the pending literal flushed into it, when there is one.
FlushTokenDropped(fmts, token) == fmts
FlushToken(fmts, token) ==
    IF token # <<>> THEN Append(fmts, PlainStringFormatter(token)) ELSE fmts

\* The check for the escape "%%" at a "%" at pos.
IsEscapeTooShort(fmt, p) == Len(fmt) > p + 2 /\ At(fmt, p + 1) = "%"
IsEscape(fmt, p) == Len(fmt) > p + 1 /\ At(fmt, p + 1) = "%"

\* One iteration of the for loop, the ++pos included, from the loop state
\* st = [pos, current_token, formatters, error].
ParseIteration(fmt, builtin, user, st) ==
    IF At(fmt, st.pos) # "%"
    THEN [st EXCEPT !.current_token = Append(@, At(fmt, st.pos)),
                    !.pos = @ + 1]
    ELSE IF IsEscape(fmt, st.pos)
    THEN [st EXCEPT !.current_token = Append(@, "%"), !.pos = @ + 2]
    ELSE
    LET flushed == FlushToken(st.formatters, st.current_token)
        m == regex_search(substr(fmt, st.pos))
    IN IF ~m.matched
       THEN [st EXCEPT !.error = NoValidCommand(st.pos)]
       ELSE
       LET max_length == IF Len(m.str3) # 0 THEN SimpleAtoi(m.str3) ELSE NoLength
           command_end_position == st.pos + Len(m.str0) - 1
       IN [pos |-> command_end_position + 1,
           current_token |-> <<>>,
           formatters |-> Append(flushed,
                                 ResolveCommand(builtin, user, m.str1, m.str2,
                                                max_length)),
           error |-> NoError]

\* The code after the loop: the final literal, or the empty literal of an
\* empty format string.
ParseEndNoFinalLiteral(fmt, st) == st.formatters
ParseEndNonEmptyOnly(fmt, st) ==
    IF st.current_token # <<>>
    THEN Append(st.formatters, PlainStringFormatter(st.current_token))
    ELSE st.formatters
ParseEnd(fmt, st) ==
    IF st.current_token # <<>> \/ fmt = <<>>
    THEN Append(st.formatters, PlainStringFormatter(st.current_token))
    ELSE st.formatters

RECURSIVE ParseLoop(_, _, _, _)
ParseLoop(fmt, builtin, user, st) ==
    IF st.error # NoError THEN [error |-> st.error, formatters |-> <<>>]
    ELSE IF st.pos < Len(fmt)
    THEN ParseLoop(fmt, builtin, user, ParseIteration(fmt, builtin, user, st))
    ELSE [error |-> NoError, formatters |-> ParseEnd(fmt, st)]

\* parse(format, command_parsers): the providers, or the exception thrown.
parse(fmt, builtin, user) ==
    ParseLoop(fmt, builtin, user,
              [pos |-> 0, current_token |-> <<>>, formatters |-> <<>>,
               error |-> NoError])

-----------------------------------------------------------------------------
(* Values (ProtobufWkt::Value through ValueUtil) and the evaluation of one *)
(* provider.                                                               *)

nullValue == [kind |-> "null"]
stringValue(str) == [kind |-> "string", string_value |-> str]
numberValue(num) == [kind |-> "number", number_value |-> num]
\* A Struct is a function from its keys to Values (a protobuf map has no
\* order of its own).
structValue(fields) == [kind |-> "struct", struct_value |-> fields]
listValue(values) == [kind |-> "list", list_value |-> values]
\* ValueUtil::optionalStringValue
optionalStringValue(str) ==
    IF str.has_value THEN stringValue(str.value) ELSE nullValue

\* The text of a number leaf.
DigitChar == [d \in 0..9 |-> CASE d = 0 -> "0" [] d = 1 -> "1" [] d = 2 -> "2"
                               [] d = 3 -> "3" [] d = 4 -> "4" [] d = 5 -> "5"
                               [] d = 6 -> "6" [] d = 7 -> "7" [] d = 8 -> "8"
                               [] d = 9 -> "9"]
RECURSIVE NumberToString(_)
NumberToString(n) ==
    IF n < 10 THEN <<DigitChar[n]>>
    ELSE Append(NumberToString(n \div 10), DigitChar[n % 10])

\* What a command provider of the embedding code makes of a context: its
\* text capability and its typed-value capability, which are independent.
Absent == [text |-> nullopt, value |-> nullValue]
Text == [text |-> optional(<<"v">>), value |-> stringValue(<<"v">>)]
ValueOnly == [text |-> nullopt, value |-> numberValue(0)]

\* A context gives each command name it knows an outcome; a command it does
\* not know has nothing to contribute.
Outcome(ctx, command) ==
    IF command \in DOMAIN ctx THEN ctx[command] ELSE Absent

FlatContexts == [{<<"A">>, <<"C">>} -> {Absent, Text}]
StructContexts ==
    {[c \in {<<"X">>, <<"Y">>} |-> IF c = <<"X">> THEN x ELSE y] :
        x \in {Absent, Text, ValueOnly}, y \in {Absent, Text}}
NoContext == [c \in {} |-> Absent]

\* FormatterProvider::formatWithContext(context, stream_info)
providerFormat(provider, ctx) ==
    CASE provider.type = "PlainString" -> optional(provider.str)
      [] provider.type = "PlainNumber" -> optional(NumberToString(provider.num))
      [] provider.type = "TestFormatter" -> optional(<<"TestFormatter">>)
      [] provider.type = "AdditionalFormatter" -> optional(<<"AdditionalFormatter">>)
      [] OTHER -> Outcome(ctx, provider.command).text

\* FormatterProvider::formatValueWithContext(context, stream_info)
providerFormatValue(provider, ctx) ==
    CASE provider.type = "PlainString" -> stringValue(provider.str)
      [] provider.type = "PlainNumber" -> numberValue(provider.num)
      [] provider.type \in {"TestFormatter", "AdditionalFormatter"} ->
             stringValue(providerFormat(provider, ctx).value)
      [] OTHER -> Outcome(ctx, provider.command).value

-----------------------------------------------------------------------------
(* CommonFormatterBaseImpl: the flat formatter.                            *)

DefaultUnspecifiedValueStringView == <<"-">>

\* The constructors' initializer of empty_value_string_ / empty_value_
EmptyValueAlwaysDash(omit) == DefaultUnspecifiedValueStringView
EmptyValueString(omit) == IF omit THEN <<>> ELSE DefaultUnspecifiedValueStringView

\* CommonFormatterBaseImpl::formatWithContext: the loop over providers_
RECURSIVE FormatProviders(_, _, _)
FormatProviders(providers, ctx, empty_value) ==
    IF providers = <<>> THEN <<>>
    ELSE value_or(providerFormat(Head(providers), ctx), empty_value)
         \o FormatProviders(Tail(providers), ctx, empty_value)

\* The resolver chains a formatter is built with: the built-in parsers of
\* the process and the parsers the caller supplies.
Chains ==
    { [builtin |-> <<>>, user |-> <<>>],
      [builtin |-> <<BuiltInA>>, user |-> <<TestCommandParser, UserAC>>],
      [builtin |-> <<BuiltInAC, BuiltInA>>,
       user |-> <<TestCommandParser, AdditionalCommandParser>>],
      [builtin |-> <<>>, user |-> <<UserAC, TestCommandParser>>] }

NoStruct == [k \in {} |-> nullValue]

\* The parts of the state the flat formatter does not use.
StructIdle ==
    /\ format_mapping = <<>>
    /\ preserve_types = FALSE
    /\ struct_output_format_ = <<>>
    /\ output_struct = NoStruct

\* A call of a constructor of CommonFormatterBaseImpl, about to run parse.
Init ==
    /\ format \in Formats
    /\ \E ch \in Chains :
          builtin_parsers = ch.builtin /\ command_parsers = ch.user
    /\ omit_empty_values \in BOOLEAN
    /\ pos = 0
    /\ current_token = <<>>
    /\ formatters = <<>>
    /\ providers_ = <<>>
    /\ pc = "parse"
    /\ error = NoError
    /\ context = NoContext
    /\ log_line = <<>>
    /\ StructIdle
    /\ calls = <<>>

structVars == <<format_mapping, preserve_types, struct_output_format_, output_struct>>
inputVars == <<format, builtin_parsers, command_parsers, omit_empty_values, calls>>

\* One iteration of the loop of parse.
ParseStep ==
    /\ pc = "parse"
    /\ pos < Len(format)
    /\ LET st == ParseIteration(format, builtin_parsers, command_parsers,
                                [pos |-> pos, current_token |-> current_token,
                                 formatters |-> formatters, error |-> NoError])
       IN IF st.error # NoError
          THEN \* the exception leaves the constructor: no object, no plan
               /\ pc' = "failed"
               /\ error' = st.error
               /\ formatters' = <<>>
               /\ UNCHANGED <<pos, current_token>>
          ELSE /\ pos' = st.pos
               /\ current_token' = st.current_token
               /\ formatters' = st.formatters
               /\ UNCHANGED <<pc, error>>
    /\ UNCHANGED <<inputVars, providers_, context, log_line, structVars>>

\* The end of parse and the assignment of its result to providers_.
ParseReturn ==
    /\ pc = "parse"
    /\ pos >= Len(format)
    /\ providers_' = ParseEnd(format, [current_token |-> current_token,
                                       formatters |-> formatters])
    /\ pc' = "ready"
    /\ UNCHANGED <<inputVars, pos, current_token, formatters, error, context,
                   log_line, structVars>>

\* CommonFormatterBaseImpl::formatWithContext(context, stream_info)
FormatWithContext ==
    /\ pc \in {"ready", "formatted"}
    /\ \E ctx \in FlatContexts :
          /\ context' = ctx
          /\ log_line' = FormatProviders(providers_, ctx,
                                         EmptyValueString(omit_empty_values))
    /\ pc' = "formatted"
    /\ UNCHANGED <<inputVars, pos, current_token, formatters, providers_, error,
                   structVars>>

Next == ParseStep \/ ParseReturn \/ FormatWithContext

Spec == Init /\ [][Next]_vars

-----------------------------------------------------------------------------
(* The grammar of a command token, stated declaratively, and what the      *)
(* claims about the flat formatter need of it.                             *)

\* t is a whole command token: "%", a name, optionally "(" subcommand ")",
\* optionally ":" digits, "%".  a is the last index of the name, b the last
\* index of the subcommand group (b = a without one).
IsToken(t) ==
    /\ Len(t) >= 3
    /\ t[1] = "%"
    /\ t[Len(t)] = "%"
    /\ \E a \in 2..(Len(t) - 1), b \in 2..(Len(t) - 1) :
          /\ a <= b
          /\ \A k \in 2..a : t[k] \in NameChars
          /\ \/ b = a
             \/ /\ b >= a + 2
                /\ t[a + 1] = "("
                /\ t[b] = ")"
                /\ \A k \in (a + 2)..(b - 1) : t[k] # ")"
          /\ \/ b = Len(t) - 1
             \/ /\ b + 2 <= Len(t) - 1
                /\ t[b + 1] = ":"
                /\ \A k \in (b + 2)..(Len(t) - 1) : t[k] \in DigitChars

\* The lengths of the prefixes of s that are command tokens.
TokenLengths(s) == {n \in 1..Len(s) : IsToken(SubSeq(s, 1, n))}

\* Two adjacent "%" at 0-based index i of fmt.
PairAt(fmt, i) ==
    i >= 0 /\ i + 1 < Len(fmt) /\ At(fmt, i) = "%" /\ At(fmt, i + 1) = "%"

\* The scan is at a "%" that no "%" follows immediately.
AtSinglePercent ==
    /\ pc = "parse"
    /\ pos < Len(format)
    /\ At(format, pos) = "%"
    /\ ~PairAt(format, pos)

\* The scan is at a command token.
AtCommandToken == AtSinglePercent /\ TokenLengths(substr(format, pos)) # {}

\* The format string compiles.
Compiles == parse(format, builtin_parsers, command_parsers).error = NoError

\* The literal text of s, left to right: "%%" as "%", a command token as "-".
RECURSIVE LiteralWithDashes(_)
LiteralWithDashes(s) ==
    IF s = <<>> THEN <<>>
    ELSE IF Head(s) # "%" THEN <<Head(s)>> \o LiteralWithDashes(Tail(s))
    ELSE IF Len(s) >= 2 /\ s[2] = "%"
    THEN <<"%">> \o LiteralWithDashes(SubSeq(s, 3, Len(s)))
    ELSE LET n == CHOOSE n \in TokenLengths(s) : TRUE
         IN <<"-">> \o LiteralWithDashes(SubSeq(s, n + 1, Len(s)))

\* Every command provider of the plan yields no value in the context.
NoCommandYields ==
    \A i \in 1..Len(providers_) :
        providers_[i].type # "PlainString"
            => ~providerFormat(providers_[i], context).has_value

\* C1: a flat formatter built with omit_empty_values = false and evaluated
\* against a context in which no command provider yields a value returns the
\* literal text of the format, "%%" as "%" and every command token as "-",
\* in the original order.
C1_FlatTextWithDashes ==
    (pc = "formatted" /\ ~omit_empty_values /\ NoCommandYields)
        => log_line = LiteralWithDashes(format)

\* C1's case: literal text, an escape and two command tokens, none yielding.
C1_Witness ==
    /\ pc = "formatted"
    /\ ~omit_empty_values
    /\ NoCommandYields
    /\ format = <<"(", "%", "C", "%", ")", "%", "%", "%", "A", ":", "1", "%", ":">>
    /\ log_line = <<"(", "-", ")", "%", "-", ":">>

\* The first parser of the vector that claims the command, 0 if none does.
FirstClaiming(parsers, command) ==
    LET cl == {i \in 1..Len(parsers) : command \in parsers[i].commands}
    IN IF cl = {} THEN 0 ELSE CHOOSE i \in cl : \A j \in cl : i <= j

\* The provider is the one parser cmd makes of the command.
MadeBy(provider, cmd) ==
    CASE cmd.id = "TestCommandParser" -> provider.type = "TestFormatter"
      [] cmd.id = "AdditionalCommandParser" -> provider.type = "AdditionalFormatter"
      [] OTHER -> provider.type = "Command" /\ provider.by = cmd.id

C3_EveryPairIsEscape ==
    [][(AtCommandToken /\ Compiles) =>
          LET n == CHOOSE n \in TokenLengths(substr(format, pos)) : TRUE
          IN \A i \in 0..(Len(format) - 2) :
                PairAt(format, i) =>
                    {i, i + 1} \cap {pos, pos + n - 1} = {}]_vars

\* C3 as amended: a "%" at the scan position that another "%" follows is an
\* escape: it adds one "%" to the pending literal, starts no command token,
\* appends no provider and moves the scan past both characters; "%%"
\* compiles to one PlainText "%", "100%%" to one PlainText "100%".
C3_EscapeAtScanPosition ==
    /\ [][(pc = "parse" /\ PairAt(format, pos)) =>
             /\ current_token' = Append(current_token, "%")
             /\ pos' = pos + 2
             /\ formatters' = formatters
             /\ pc' = "parse"]_vars
    /\ [](pc = "ready" =>
            /\ format = <<"%", "%">> =>
                  providers_ = <<PlainStringFormatter(<<"%">>)>>
            /\ format = <<"1", "0", "0", "%", "%">> =>
                  providers_ = <<PlainStringFormatter(<<"1", "0", "0", "%">>)>>)

\* C3's case: "100%%" compiled.
C3_Witness ==
    /\ pc = "ready"
    /\ format = <<"1", "0", "0", "%", "%">>
    /\ providers_ = <<PlainStringFormatter(<<"1", "0", "0", "%">>)>>

\* C4: at a "%" that no "%" follows and at which no command token starts,
\* parse fails with the error that names the index of that "%", and no plan
\* is returned; the "%" is not taken as literal text.
C4_UnmatchedPercentFails ==
    /\ [][(AtSinglePercent /\ TokenLengths(substr(format, pos)) = {}) =>
             /\ pc' = "failed"
             /\ error' = [what |-> "Couldn't find valid command", position |-> pos]
             /\ current_token' = current_token
             /\ providers_' = <<>>]_vars
    /\ [](pc = "failed" => (providers_ = <<>> /\ ~ENABLED FormatWithContext))

\* C4's case: a lone "%" as the last character, after literal text.
C4_Witness ==
    /\ pc = "failed"
    /\ format = <<"A", ":", "%">>
    /\ error.position = 2

\* The command name of a whole command token: the run of name characters
\* after its first "%".
TokenName(t) ==
    LET a == CHOOSE a \in 2..(Len(t) - 1) :
                 /\ \A k \in 2..a : t[k] \in NameChars
                 /\ t[a + 1] \notin NameChars
    IN SubSeq(t, 2, a)

\* No built-in and no user-supplied parser of the formatter claims command.
Unclaimed(command) ==
    /\ FirstClaiming(builtin_parsers, command) = 0
    /\ FirstClaiming(command_parsers, command) = 0

PercentFree(fmt) == \A i \in 1..Len(fmt) : fmt[i] # "%"

\* C13: for every format string without "%", the empty string included,
\* parse does not fail and yields exactly one provider, a PlainText provider
\* whose literal is the format string.
C13_PercentFreeIsOneLiteral ==
    PercentFree(format) =>
        /\ pc # "failed"
        /\ pc \in {"ready", "formatted"} =>
              providers_ = <<[type |-> "PlainString", str |-> format]>>

\* C13's cases: a literal of several characters compiled, and the empty
\* string compiled.
C13_Witness ==
    /\ pc = "ready"
    /\ Len(providers_) = 1
    /\ \/ format = <<"(", "A", ":", ")">> /\ providers_[1].str = format
       \/ format = <<>> /\ providers_[1].str = <<>>

-----------------------------------------------------------------------------
(* StructFormatterBase: the structured template and its compiler           *)
(* (FormatBuilder).                                                        *)

\* A ProtobufWkt::Struct given as the template keeps, in the model, the order
\* in which the document declared its fields: a sequence of [key, value].
structTemplate(fields) == [kind |-> "struct", fields |-> fields]
boolValue(b) == [kind |-> "bool", bool_value |-> b]
Field(key, value) == [key |-> key, value |-> value]

\* std::string's operator< on the keys of the model, which are one letter.
KeyRank == [k \in {"a", "b", "c"} |-> CASE k = "a" -> 1 [] k = "b" -> 2 [] k = "c" -> 3]
KeyLess(k1, k2) == KeyRank[k1] < KeyRank[k2]

\* A compiled node (StructFormatValue): a provider vector, a map wrapper or a
\* list wrapper; or the exception that compiling it threw.
Providers(providers) == [kind |-> "providers", providers |-> providers]
StructFormatMapWrapper(value_) == [kind |-> "map", value_ |-> value_]
StructFormatListWrapper(value_) == [kind |-> "list", value_ |-> value_]
Throw(what) == [kind |-> "throw", what |-> what]
UnsupportedKind ==
    "Only string values, nested structs, list values and number values are supported in structured access log format."

\* std::map::emplace(key, value): the entries stay sorted by key; an entry
\* whose key is there already is left as it is.
MapEmplace(entries, key, value) ==
    IF \E i \in 1..Len(entries) : entries[i].key = key THEN entries
    ELSE LET n == Cardinality({i \in 1..Len(entries) : KeyLess(entries[i].key, key)})
         IN SubSeq(entries, 1, n) \o <<Field(key, value)>>
            \o SubSeq(entries, n + 1, Len(entries))

\* FormatBuilder::toFormatStringValue
toFormatStringValue(string_format, builtin, commands_) ==
    LET r == parse(string_format, builtin, commands_)
    IN IF r.error # NoError THEN Throw(r.error.what) ELSE Providers(r.formatters)

\* FormatBuilder::toFormatNumberValue
toFormatNumberValue(value) == Providers(<<PlainNumberFormatter(value)>>)

RECURSIVE toFormatValue(_, _, _)

\* The std::map after the loop of toFormatMapValue, or the first exception.
RECURSIVE MapLoop(_, _, _)
MapLoop(fields, compiled, output) ==
    IF fields = <<>> THEN StructFormatMapWrapper(output)
    ELSE IF Head(compiled).kind = "throw" THEN Head(compiled)
    ELSE MapLoop(Tail(fields), Tail(compiled),
                 MapEmplace(output, Head(fields).key, Head(compiled)))

\* The std::list after the loop of toFormatListValue, or the first exception.
RECURSIVE ListLoopSkippingThrow(_, _)
ListLoopSkippingThrow(compiled, output) ==
    IF compiled = <<>> THEN StructFormatListWrapper(output)
    ELSE IF Head(compiled).kind = "throw"
    THEN ListLoopSkippingThrow(Tail(compiled), output)
    ELSE ListLoopSkippingThrow(Tail(compiled), Append(output, Head(compiled)))
RECURSIVE ListLoop(_, _)
ListLoop(compiled, output) ==
    IF compiled = <<>> THEN StructFormatListWrapper(output)
    ELSE IF Head(compiled).kind = "throw" THEN Head(compiled)
    ELSE ListLoop(Tail(compiled), Append(output, Head(compiled)))

\* FormatBuilder::toFormatMapValue
toFormatMapValue(struct_format, builtin, commands_) ==
    MapLoop(struct_format,
            [i \in 1..Len(struct_format) |->
                toFormatValue(struct_format[i].value, builtin, commands_)],
            <<>>)

\* FormatBuilder::toFormatListValue
toFormatListValue(list_value_format, builtin, commands_) ==
    ListLoop([i \in 1..Len(list_value_format) |->
                 toFormatValue(list_value_format[i], builtin, commands_)],
             <<>>)

\* The switch on kind_case() of toFormatMapValue and of toFormatListValue,
\* which is the same in both: the compiled value of one field or element.
toFormatValue(value, builtin, commands_) ==
    CASE value.kind = "string" ->
             toFormatStringValue(value.string_value, builtin, commands_)
      [] value.kind = "struct" -> toFormatMapValue(value.fields, builtin, commands_)
      [] value.kind = "list" -> toFormatListValue(value.list_value, builtin, commands_)
      [] value.kind = "number" -> toFormatNumberValue(value.number_value)
      [] OTHER -> Throw(UnsupportedKind)

-----------------------------------------------------------------------------
(* StructFormatterBase: the evaluator.  opts = [preserve_types,            *)
(* omit_empty_values] are the members of the formatter.                    *)

\* StructFormatterBase::providersCallback, with the omit_empty_values test
\* before the preserve_types test.
providersCallbackOmitFirst(providers, ctx, opts) ==
    IF Len(providers) = 1
    THEN LET provider == providers[1]
         IN IF opts.omit_empty_values
            THEN optionalStringValue(providerFormat(provider, ctx))
            ELSE IF opts.preserve_types
            THEN providerFormatValue(provider, ctx)
            ELSE stringValue(value_or(providerFormat(provider, ctx),
                                      EmptyValueString(opts.omit_empty_values)))
    ELSE stringValue(FormatProviders(providers, ctx,
                                     EmptyValueString(opts.omit_empty_values)))

\* StructFormatterBase::providersCallback
providersCallback(providers, ctx, opts) ==
    IF Len(providers) = 1
    THEN LET provider == providers[1]
         IN IF opts.preserve_types
            THEN providerFormatValue(provider, ctx)
            ELSE IF opts.omit_empty_values
            THEN optionalStringValue(providerFormat(provider, ctx))
            ELSE stringValue(value_or(providerFormat(provider, ctx),
                                      EmptyValueString(opts.omit_empty_values)))
    ELSE \* Multiple providers forces string output.
         stringValue(FormatProviders(providers, ctx,
                                     EmptyValueString(opts.omit_empty_values)))

\* The test that skips a value in both callbacks.
IsOmittedNever(value, opts) == FALSE
IsOmitted(value, opts) == opts.omit_empty_values /\ value.kind = "null"

\* The return of structFormatMapCallback.
MapResultNeverNull(output, opts) == structValue(output)
MapResult(output, opts) ==
    IF opts.omit_empty_values /\ DOMAIN output = {} THEN nullValue
    ELSE structValue(output)

\* The return of structFormatListCallback.
ListResultCollapsing(output, opts) ==
    IF opts.omit_empty_values /\ output = <<>> THEN nullValue ELSE listValue(output)
ListResult(output, opts) == listValue(output)

\* StructFormatterBase::structFormatMapCallback.  visited[i] is the value
\* absl::visit(visitor, pair.second) returns for the i-th entry of the map.
structFormatMapCallback(format_map, visited, opts) ==
    LET entries == format_map.value_
        kept == {i \in 1..Len(entries) : ~IsOmitted(visited[i], opts)}
        output == [k \in {entries[i].key : i \in kept} |->
                      visited[CHOOSE i \in kept : entries[i].key = k]]
    IN MapResult(output, opts)

\* The elements of a list that are kept, in order.
RECURSIVE KeptValues(_, _)
KeptValues(values, opts) ==
    IF values = <<>> THEN <<>>
    ELSE IF IsOmitted(Head(values), opts) THEN KeptValues(Tail(values), opts)
    ELSE <<Head(values)>> \o KeptValues(Tail(values), opts)

\* StructFormatterBase::structFormatListCallback.  visited[i] is the value
\* absl::visit(visitor, val) returns for the i-th element of the list.
structFormatListCallback(format_list, visited, opts) ==
    ListResult(KeptValues(visited, opts), opts)

\* absl::visit(visitor, value): the callback of the node's alternative.
RECURSIVE visit(_, _, _)
visit(node, ctx, opts) ==
    CASE node.kind = "providers" -> providersCallback(node.providers, ctx, opts)
      [] node.kind = "map" ->
             structFormatMapCallback(
                 node,
                 [i \in 1..Len(node.value_) |-> visit(node.value_[i].value, ctx, opts)],
                 opts)
      [] node.kind = "list" ->
             structFormatListCallback(
                 node,
                 [i \in 1..Len(node.value_) |-> visit(node.value_[i], ctx, opts)],
                 opts)

\* ProtobufWkt::Value::struct_value(): the Struct of a Value of kind struct,
\* the default (empty) Struct of a Value of any other kind.
struct_value(value) ==
    IF value.kind = "struct" THEN value.struct_value ELSE NoStruct

\* StructFormatterBase::formatWithContext
structFormatWithContext(plan, ctx, opts) == struct_value(visit(plan, ctx, opts))

-----------------------------------------------------------------------------
(* The structured formatter as a state machine.                            *)

\* The sequences of at most n elements of set S.
RECURSIVE SeqsUpTo(_, _)
SeqsUpTo(S, n) ==
    IF n = 0 THEN {<<>>}
    ELSE SeqsUpTo(S, n - 1)
         \cup {Append(q, e) : q \in {r \in SeqsUpTo(S, n - 1) : Len(r) = n - 1},
                              e \in S}

\* Scalar leaves: one command, two commands, a number, a kind that is not
\* supported, a format string that does not compile.
CommandLeaf(c) == stringValue(<<"%", c, "%">>)
TwoCommandsLeaf == stringValue(<<"%", "X", "%", "%", "Y", "%">>)
NumberLeaf == numberValue(7)
TemplateLeaves ==
    {CommandLeaf("X"), TwoCommandsLeaf, NumberLeaf, boolValue(TRUE),
     stringValue(<<"%">>)}

\* Nested maps and lists, to three levels below the top-level map.
NestedMaps ==
    {structTemplate(<<>>)}
    \cup {structTemplate(<<Field("c", v)>>) :
             v \in {CommandLeaf("X"), CommandLeaf("Y"),
                    listValue(<<CommandLeaf("X")>>)}}
ListElements ==
    {CommandLeaf("X"), NumberLeaf, structTemplate(<<Field("c", CommandLeaf("Y"))>>)}
NestedLists == {listValue(q) : q \in SeqsUpTo(ListElements, MaxListLen)}

TemplateValues == TemplateLeaves \cup NestedMaps \cup NestedLists

\* Top-level maps over the keys "a" and "b", declared in either order, and
\* maps of three scalar fields with the keys declared in every order.
TwoKeyTemplates ==
    {<<>>}
    \cup {<<Field(k, v)>> : k \in {"a", "b"}, v \in TemplateValues}
    \cup {<<Field(ks[1], v1), Field(ks[2], v2)>> :
             ks \in {<<"a", "b">>, <<"b", "a">>},
             v1 \in TemplateValues, v2 \in TemplateValues}
ThreeKeyTemplates ==
    {<<Field(ks[1], v1), Field(ks[2], v2), Field(ks[3], v3)>> :
        ks \in {q \in [1..3 -> {"a", "b", "c"}] : {q[1], q[2], q[3]} = {"a", "b", "c"}},
        v1 \in {CommandLeaf("X"), NumberLeaf},
        v2 \in {CommandLeaf("Y"), NumberLeaf},
        v3 \in {CommandLeaf("X")}}

\* Templates that hold a value of a kind the compiler does not support, a
\* boolean or a null, as a field of a nested map or an element of a list, to
\* three levels below the top-level map, alone or after a field that compiles.
UnsupportedLeaves == {boolValue(TRUE), boolValue(FALSE), nullValue}
UnsupportedValues ==
    UnsupportedLeaves
    \cup {structTemplate(<<Field("c", u)>>) : u \in UnsupportedLeaves}
    \cup {listValue(<<CommandLeaf("X"), u>>) : u \in UnsupportedLeaves}
    \cup {listValue(<<structTemplate(<<Field("c", u)>>)>>) : u \in UnsupportedLeaves}
    \cup {structTemplate(<<Field("c", listValue(<<listValue(<<u>>)>>))>>) :
             u \in UnsupportedLeaves}
UnsupportedTemplates ==
    {<<Field("a", v)>> : v \in UnsupportedValues}
    \cup {<<Field("b", NumberLeaf), Field("a", v)>> : v \in UnsupportedValues}
    \cup {<<Field("a", v), Field("b", stringValue(<<"%">>))>> :
             v \in UnsupportedValues}

\* Templates of one string leaf, for every short format string: the empty
\* string, literals, escapes, commands, their mixes and strings that do not
\* compile; and two longer mixes.
LeafAlphabet == {"%", "X", ":"}
LeafFormats ==
    SeqsUpTo(LeafAlphabet, MaxLeafLen)
    \cup {<<":", "%", "X", "%", "%", "%">>, <<"%", "%", "%", "X", "(", "%", ")", "%">>}
LeafTemplates == {<<Field("a", stringValue(f))>> : f \in LeafFormats}

Templates ==
    TwoKeyTemplates \cup ThreeKeyTemplates \cup UnsupportedTemplates
    \cup LeafTemplates

\* The members preserve_types_ and omit_empty_values_.
Options == [preserve_types |-> preserve_types, omit_empty_values |-> omit_empty_values]

\* The parts of the state the structured formatter does not use.
FlatIdle ==
    /\ format = <<>>
    /\ pos = 0
    /\ current_token = <<>>
    /\ formatters = <<>>
    /\ providers_ = <<>>
    /\ log_line = <<>>

flatVars == <<format, pos, current_token, formatters, providers_, log_line>>

\* A call of the constructor of StructFormatterBase, about to compile.
InitStruct ==
    /\ format_mapping \in Templates
    /\ preserve_types \in BOOLEAN
    /\ omit_empty_values \in BOOLEAN
    /\ builtin_parsers = <<>>
    /\ command_parsers = <<TestCommandParser>>
    /\ struct_output_format_ = <<>>
    /\ output_struct = NoStruct
    /\ pc = "compile"
    /\ error = NoError
    /\ context = NoContext
    /\ FlatIdle
    /\ calls = <<>>

\* The constructor of StructFormatterBase: the initializer of
\* struct_output_format_, FormatBuilder(commands).toFormatMapValue(format_mapping).
StructFormatterBase ==
    /\ pc = "compile"
    /\ LET r == toFormatMapValue(format_mapping, builtin_parsers, command_parsers)
       IN IF r.kind = "throw"
          THEN /\ pc' = "failed"
               /\ error' = [what |-> r.what, position |-> 0]
               /\ UNCHANGED struct_output_format_
          ELSE /\ pc' = "ready"
               /\ struct_output_format_' = r
               /\ UNCHANGED error
    /\ UNCHANGED <<flatVars, builtin_parsers, command_parsers, omit_empty_values,
                   format_mapping, preserve_types, output_struct, context, calls>>

\* StructFormatterBase::formatWithContext(context, info)
StructFormatWithContext ==
    /\ pc \in {"ready", "formatted"}
    /\ \E ctx \in StructContexts :
          /\ context' = ctx
          /\ output_struct' = structFormatWithContext(struct_output_format_, ctx, Options)
    /\ pc' = "formatted"
    /\ UNCHANGED <<flatVars, builtin_parsers, command_parsers, omit_empty_values,
                   format_mapping, preserve_types, struct_output_format_, error,
                   calls>>

NextStruct == StructFormatterBase \/ StructFormatWithContext

SpecStruct == InitStruct /\ [][NextStruct]_vars

-----------------------------------------------------------------------------
(* Evaluation calls of several threads on one compiled formatter.  Both    *)
(* formatWithContext are const member functions; a call reads the plan and *)
(* writes its own local variables only.  A step of a call is one provider  *)
(* of the flat plan, or one scalar leaf of the structured plan; steps of   *)
(* different calls interleave in any order.                                *)

\* The concatenation of a sequence of sequences.
RECURSIVE Flatten(_)
Flatten(seqs) ==
    IF seqs = <<>> THEN <<>> ELSE Head(seqs) \o Flatten(Tail(seqs))

\* The scalar leaves of a compiled node in the order absl::visit reaches
\* them: the fields of a map in the order of the std::map, the elements of
\* a list in order.
RECURSIVE LeafSeq(_)
LeafSeq(node) ==
    CASE node.kind = "providers" -> <<node>>
      [] node.kind = "map" ->
             Flatten([i \in 1..Len(node.value_) |-> LeafSeq(node.value_[i].value)])
      [] node.kind = "list" ->
             Flatten([i \in 1..Len(node.value_) |-> LeafSeq(node.value_[i])])

\* The child nodes of a map or list node, in the order they are visited.
Children(node) ==
    [i \in 1..Len(node.value_) |->
        IF node.kind = "map" THEN node.value_[i].value ELSE node.value_[i]]

\* The value of a node, given the values its leaves evaluated to (in the
\* order of LeafSeq): what the map and list callbacks build, in their local
\* output, from the values the visitor returned to them.
RECURSIVE Assemble(_, _, _)
Assemble(node, vals, opts) ==
    IF node.kind = "providers" THEN vals[1]
    ELSE LET ch == Children(node)
             Off(i) == Len(Flatten([j \in 1..(i - 1) |-> LeafSeq(ch[j])]))
             visited == [i \in 1..Len(ch) |->
                            Assemble(ch[i],
                                     SubSeq(vals, Off(i) + 1,
                                            Off(i) + Len(LeafSeq(ch[i]))),
                                     opts)]
         IN IF node.kind = "map"
            THEN structFormatMapCallback(node, visited, opts)
            ELSE structFormatListCallback(node, visited, opts)

\* The call frame whose accumulator (log_line of the flat evaluator; str and
\* output of the structured one) call t writes: they are local variables,
\* so it is the frame of call t itself.
AccumulatorShared(t) == 1
Accumulator(t) == t

IdleCall ==
    [pc |-> "idle", context |-> NoContext, next |-> 0, acc |-> <<>>,
     result |-> <<>>]

\* The formatters the calls run on: flat ones and structured ones.
ConcurrentFormats ==
    {<<"%", "A", "%">>, <<"%", "A", "%", "%", "C", "%">>,
     <<"(", "%", "C", "%", ")", "%", "%", "%", "A", ":", "1", "%", ":">>}
ConcurrentTemplates ==
    {<<Field("a", CommandLeaf("X"))>>,
     <<Field("b", TwoCommandsLeaf), Field("a", NumberLeaf)>>,
     <<Field("a", CommandLeaf("X")),
       Field("b", structTemplate(<<Field("c", CommandLeaf("Y"))>>))>>,
     <<Field("a", listValue(<<CommandLeaf("X"), CommandLeaf("Y")>>))>>}

\* A compiled formatter, flat or structured, shared by NumCalls threads, none
\* of which has called it yet.
InitConcurrent ==
    /\ pc = "ready"
    /\ error = NoError
    /\ omit_empty_values \in BOOLEAN
    /\ pos = 0
    /\ current_token = <<>>
    /\ formatters = <<>>
    /\ context = NoContext
    /\ log_line = <<>>
    /\ output_struct = NoStruct
    /\ calls = [t \in 1..NumCalls |-> IdleCall]
    /\ \/ /\ format \in ConcurrentFormats
          /\ builtin_parsers = <<>>
          /\ command_parsers = <<>>
          /\ providers_ = parse(format, builtin_parsers, command_parsers).formatters
          /\ format_mapping = <<>>
          /\ preserve_types = FALSE
          /\ struct_output_format_ = <<>>
       \/ /\ format_mapping \in ConcurrentTemplates
          /\ preserve_types \in BOOLEAN
          /\ builtin_parsers = <<>>
          /\ command_parsers = <<TestCommandParser>>
          /\ struct_output_format_ =
                toFormatMapValue(format_mapping, builtin_parsers, command_parsers)
          /\ format = <<>>
          /\ providers_ = <<>>

objectVars ==
    <<format, builtin_parsers, command_parsers, omit_empty_values, pos,
      current_token, formatters, providers_, pc, error, context, log_line,
      format_mapping, preserve_types, struct_output_format_, output_struct>>

IsFlat == struct_output_format_ = <<>>

\* A thread calls formatWithContext(context, stream_info): its frame is set
\* up, the accumulator empty.
CallBegin(t) ==
    /\ calls[t].pc \in {"idle", "returned"}
    /\ \E ctx \in IF IsFlat THEN FlatContexts ELSE StructContexts :
          calls' = [calls EXCEPT
                       ![t] = [pc |-> "running", context |-> ctx, next |-> 1,
                               acc |-> @.acc, result |-> <<>>],
                       ![Accumulator(t)].acc = <<>>]
    /\ UNCHANGED objectVars

\* CommonFormatterBaseImpl::formatWithContext: one iteration of the loop
\* over providers_.
FlatStep(t) ==
    /\ IsFlat
    /\ calls[t].pc = "running"
    /\ calls[t].next <= Len(providers_)
    /\ LET bit == providerFormat(providers_[calls[t].next], calls[t].context)
       IN calls' = [calls EXCEPT
                       ![Accumulator(t)].acc =
                           @ \o value_or(bit, EmptyValueString(omit_empty_values)),
                       ![t].next = @ + 1]
    /\ UNCHANGED objectVars

\* CommonFormatterBaseImpl::formatWithContext: return log_line
FlatReturn(t) ==
    /\ IsFlat
    /\ calls[t].pc = "running"
    /\ calls[t].next > Len(providers_)
    /\ calls' = [calls EXCEPT
                    ![t].result = calls[Accumulator(t)].acc,
                    ![t].pc = "returned",
                    ![t].next = 0,
                    ![Accumulator(t)].acc = <<>>]
    /\ UNCHANGED objectVars

\* StructFormatterBase::formatWithContext: the visit of one scalar leaf,
\* providersCallback.
StructStep(t) ==
    /\ ~IsFlat
    /\ calls[t].pc = "running"
    /\ calls[t].next <= Len(LeafSeq(struct_output_format_))
    /\ LET leaf == LeafSeq(struct_output_format_)[calls[t].next]
       IN calls' = [calls EXCEPT
                       ![Accumulator(t)].acc =
                           Append(@, providersCallback(leaf.providers,
                                                       calls[t].context, Options)),
                       ![t].next = @ + 1]
    /\ UNCHANGED objectVars

\* StructFormatterBase::formatWithContext: the map and list callbacks have
\* built their outputs; return the Struct of the top-level value.
StructReturn(t) ==
    /\ ~IsFlat
    /\ calls[t].pc = "running"
    /\ calls[t].next > Len(LeafSeq(struct_output_format_))
    /\ calls' = [calls EXCEPT
                    ![t].result =
                        struct_value(Assemble(struct_output_format_,
                                              calls[Accumulator(t)].acc, Options)),
                    ![t].pc = "returned",
                    ![t].next = 0,
                    ![Accumulator(t)].acc = <<>>]
    /\ UNCHANGED objectVars

NextConcurrent ==
    \E t \in 1..NumCalls :
        \/ CallBegin(t)
        \/ FlatStep(t)
        \/ FlatReturn(t)
        \/ StructStep(t)
        \/ StructReturn(t)

SpecConcurrent == InitConcurrent /\ [][NextConcurrent]_vars

-----------------------------------------------------------------------------
(* What the claims about the structured formatter need.                    *)

\* The keys of a sequence of fields or entries, in its order.
KeysOf(fields) == [i \in 1..Len(fields) |-> fields[i].key]

\* The nodes of a compiled plan: the node and all nodes below it.
RECURSIVE PlanNodes(_)
PlanNodes(node) ==
    {node} \cup
    CASE node.kind = "map" ->
             UNION {PlanNodes(node.value_[i].value) : i \in 1..Len(node.value_)}
      [] node.kind = "list" ->
             UNION {PlanNodes(node.value_[i]) : i \in 1..Len(node.value_)}
      [] OTHER -> {}

\* The value a node of the plan evaluates to in the last evaluation call.
ValueOf(node) == visit(node, context, Options)

Evaluated == pc = "formatted" /\ struct_output_format_ # <<>>

\* C5 as stated: the compiled plan holds the fields of the top-level map in
\* the order in which the template declared them.
C5_DeclarationOrderKept ==
    (pc \in {"ready", "formatted"} /\ struct_output_format_ # <<>>)
        => KeysOf(struct_output_format_.value_) = KeysOf(format_mapping)

\* C6: with omit_empty_values, a map node evaluates to the struct of exactly
\* its fields whose value is not null, and to null if none is left, so that
\* no map or list holds a null; without omit_empty_values it evaluates to
\* the struct of all its fields and never to null.
C6_MapOmitsAndCollapses ==
    Evaluated =>
        /\ \A n \in PlanNodes(struct_output_format_) :
              n.kind = "map" =>
                  LET e == n.value_
                      r == ValueOf(n)
                      keptIdx == {i \in 1..Len(e) :
                                     ~omit_empty_values \/ ValueOf(e[i].value) # nullValue}
                  IN /\ (omit_empty_values /\ keptIdx = {}) => r = nullValue
                     /\ (~omit_empty_values \/ keptIdx # {}) =>
                           /\ r.kind = "struct"
                           /\ DOMAIN r.struct_value = {e[i].key : i \in keptIdx}
                           /\ \A i \in keptIdx :
                                 r.struct_value[e[i].key] = ValueOf(e[i].value)
        /\ omit_empty_values =>
              \A n \in PlanNodes(struct_output_format_) :
                  /\ n.kind = "map" /\ ValueOf(n) # nullValue =>
                        \A k \in DOMAIN ValueOf(n).struct_value :
                            ValueOf(n).struct_value[k] # nullValue
                  /\ n.kind = "list" =>
                        \A i \in 1..Len(ValueOf(n).list_value) :
                            ValueOf(n).list_value[i] # nullValue
        /\ ~omit_empty_values =>
              DOMAIN output_struct = {format_mapping[i].key : i \in 1..Len(format_mapping)}

\* C6's case: a nested map whose only leaf is absent, inside a list, is
\* dropped from the list; the list stays, empty, in the top-level map.
C6_Witness ==
    /\ pc = "formatted"
    /\ omit_empty_values
    /\ format_mapping =
          <<Field("a", listValue(<<structTemplate(<<Field("c", CommandLeaf("Y"))>>)>>)),
            Field("b", structTemplate(<<Field("c", CommandLeaf("X"))>>))>>
    /\ context[<<"X">>] = Absent
    /\ context[<<"Y">>] = Absent
    /\ output_struct = [k \in {"a"} |-> listValue(<<>>)]

\* The template of C7: {"a": "%X%", "b": {"c": "%Y%"}}.
C7Template ==
    <<Field("a", CommandLeaf("X")),
      Field("b", structTemplate(<<Field("c", CommandLeaf("Y"))>>))>>

\* The evaluation of C7: omit_empty_values, X and Y absent.
C7Case ==
    /\ pc = "formatted"
    /\ format_mapping = C7Template
    /\ omit_empty_values
    /\ context[<<"X">>] = Absent
    /\ context[<<"Y">>] = Absent

\* C7 as stated: the result the evaluator returns is the null marker.
C7_TopLevelIsNull == C7Case => structValue(output_struct) = nullValue

\* C7 as amended: the top-level map callback yields the null marker, and the
\* evaluator returns the empty struct that struct_value() makes of it.
C7_TopLevelIsEmptyStruct ==
    C7Case =>
        /\ ValueOf(struct_output_format_) = nullValue
        /\ output_struct = NoStruct
        /\ structValue(output_struct) = [kind |-> "struct", struct_value |-> <<>>]

C7_Witness == C7Case /\ output_struct = NoStruct /\ preserve_types

\* The elements of a sequence that are not null, in order.
NonNull(values) == SelectSeq(values, LAMBDA v : v # nullValue)

\* C8: with omit_empty_values a list node evaluates to the list of exactly
\* its elements' values that are not null, in template order, and never to
\* null, even when no element is left, so that the field holding it is kept;
\* without omit_empty_values it evaluates to the list of all its elements'
\* values, in order.
C8_ListDropsNullsOnly ==
    Evaluated =>
        \A n \in PlanNodes(struct_output_format_) :
            /\ n.kind = "list" =>
                  LET cv == [i \in 1..Len(n.value_) |-> ValueOf(n.value_[i])]
                  IN /\ ValueOf(n).kind = "list"
                     /\ omit_empty_values => ValueOf(n).list_value = NonNull(cv)
                     /\ ~omit_empty_values => ValueOf(n).list_value = cv
            /\ n.kind = "map" =>
                  \A i \in 1..Len(n.value_) :
                      n.value_[i].value.kind = "list" =>
                          /\ ValueOf(n).kind = "struct"
                          /\ n.value_[i].key \in DOMAIN ValueOf(n).struct_value

\* C8's cases: a list that loses its first element and keeps its second, and
\* a list that loses every element and stays, empty, in its map.
C8_Witness ==
    /\ pc = "formatted"
    /\ omit_empty_values
    /\ ~preserve_types
    /\ format_mapping = <<Field("b", listValue(<<CommandLeaf("X"), NumberLeaf>>)),
                          Field("a", listValue(<<CommandLeaf("X")>>))>>
    /\ context[<<"X">>] = Absent
    /\ output_struct = [k \in {"a", "b"} |->
                           IF k = "a" THEN listValue(<<>>)
                           ELSE listValue(<<stringValue(<<"7">>)>>)]

\* C9: a scalar leaf of one provider evaluates to the provider's typed value
\* if preserve_types; else to null if omit_empty_values and the provider has
\* no text; else to the string of the provider's text, or of "-" when it has
\* none.  A number leaf is a number with preserve_types, a string without.
C9_SingleProviderLeaf ==
    Evaluated =>
        \A n \in PlanNodes(struct_output_format_) :
            (n.kind = "providers" /\ Len(n.providers) = 1) =>
                LET p == n.providers[1]
                    text == providerFormat(p, context)
                    r == ValueOf(n)
                IN /\ preserve_types => r = providerFormatValue(p, context)
                   /\ (~preserve_types /\ omit_empty_values /\ ~text.has_value) =>
                         r = nullValue
                   /\ (~preserve_types /\ text.has_value) =>
                         r = [kind |-> "string", string_value |-> text.value]
                   /\ (~preserve_types /\ ~omit_empty_values /\ ~text.has_value) =>
                         r = [kind |-> "string", string_value |-> <<"-">>]
                   /\ p.type = "PlainNumber" =>
                         r = IF preserve_types
                             THEN [kind |-> "number", number_value |-> p.num]
                             ELSE [kind |-> "string", string_value |-> <<"7">>]

\* C9's case: the number leaf as a number, beside a command that has a typed
\* value and no text, both kept under omit_empty_values.
C9_Witness ==
    /\ pc = "formatted"
    /\ preserve_types
    /\ omit_empty_values
    /\ format_mapping = <<Field("a", NumberLeaf), Field("b", CommandLeaf("X"))>>
    /\ context[<<"X">>] = ValueOnly
    /\ output_struct = [k \in {"a", "b"} |->
                           IF k = "a" THEN numberValue(7) ELSE numberValue(0)]

\* The texts of the providers, each without a value replaced by dflt, joined.
RECURSIVE JoinTexts(_, _)
JoinTexts(texts, dflt) ==
    IF Len(texts) = 0 THEN <<>>
    ELSE JoinTexts(SubSeq(texts, 1, Len(texts) - 1), dflt)
         \o (IF texts[Len(texts)].has_value THEN texts[Len(texts)].value ELSE dflt)

\* C10: a scalar leaf of two or more providers evaluates to a string, the
\* providers' texts in order with "-" (nothing, with omit_empty_values) for
\* each provider without a text, whatever preserve_types is; it is never
\* null, so its field is kept.
C10_MultiProviderLeaf ==
    Evaluated =>
        /\ \A n \in PlanNodes(struct_output_format_) :
              (n.kind = "providers" /\ Len(n.providers) >= 2) =>
                  /\ ValueOf(n).kind = "string"
                  /\ ValueOf(n).string_value =
                        JoinTexts([i \in 1..Len(n.providers) |->
                                      providerFormat(n.providers[i], context)],
                                  IF omit_empty_values THEN <<>> ELSE <<"-">>)
        /\ \A i \in 1..Len(struct_output_format_.value_) :
              LET e == struct_output_format_.value_[i]
              IN (e.value.kind = "providers" /\ Len(e.value.providers) >= 2) =>
                    /\ e.key \in DOMAIN output_struct
                    /\ output_struct[e.key].kind = "string"

\* C10's case: two commands without a value, under omit_empty_values and
\* preserve_types: the field is kept, with the empty string.
C10_Witness ==
    /\ pc = "formatted"
    /\ omit_empty_values
    /\ preserve_types
    /\ format_mapping = <<Field("a", TwoCommandsLeaf)>>
    /\ context[<<"X">>] = ValueOnly
    /\ context[<<"Y">>] = Absent
    /\ output_struct = [k \in {"a"} |-> stringValue(<<>>)]


\* The template value holds, at some depth, a value of a kind other than
\* string, number, map (struct) or list.
RECURSIVE HasUnsupportedKind(_)
HasUnsupportedKind(value) ==
    CASE value.kind \in {"string", "number"} -> FALSE
      [] value.kind = "struct" ->
             \E i \in 1..Len(value.fields) : HasUnsupportedKind(value.fields[i].value)
      [] value.kind = "list" ->
             \E i \in 1..Len(value.list_value) : HasUnsupportedKind(value.list_value[i])
      [] OTHER -> TRUE

\* C12: the constructor of a structured formatter whose template holds, as a
\* field of a map or an element of a list at any depth, a value that is not
\* a string, a number, a map or a list fails and leaves no compiled plan; a
\* template of those four kinds only never fails with the error about
\* unsupported kinds.
C12_UnsupportedKindFails ==
    pc # "compile" =>
        IF HasUnsupportedKind(structTemplate(format_mapping))
        THEN /\ pc = "failed"
             /\ error # NoError
             /\ struct_output_format_ = <<>>
             /\ ~ENABLED StructFormatWithContext
        ELSE error.what # UnsupportedKind

\* C12's case: a null three levels down, in a list of a list of a map, and
\* the compile failed with the error about unsupported kinds.
C12_Witness ==
    /\ pc = "failed"
    /\ format_mapping =
          <<Field("a", structTemplate(<<Field("c", listValue(<<listValue(<<nullValue>>)>>))>>))>>
    /\ error.what = UnsupportedKind

\* A flat plan, or a structured plan, has been compiled.
FlatCompiled == pc \in {"ready", "formatted"} /\ struct_output_format_ = <<>>
StructCompiled == pc \in {"ready", "formatted"} /\ struct_output_format_ # <<>>

\* The scalar leaves of the compiled structured plan.
Leaves == {node \in PlanNodes(struct_output_format_) : node.kind = "providers"}

\* C15: every flat plan that parse returns holds at least one provider, and
\* so does every scalar leaf of every compiled structured plan, the leaf of
\* a number holding exactly one: the test of ASSERT(!providers.empty()) at
\* the start of providersCallback is true for every leaf that an
\* evaluation visits.
C15_EveryPlanHasAProvider ==
    /\ FlatCompiled => Len(providers_) >= 1
    /\ StructCompiled =>
          \A node \in Leaves :
              /\ Len(node.providers) >= 1
              /\ (\E i \in 1..Len(node.providers) :
                      node.providers[i].type = "PlainNumber")
                     => Len(node.providers) = 1

\* C15's case: the leaf of the empty format string, compiled to one provider
\* holding the empty literal and evaluated.
C15_Witness ==
    /\ pc = "formatted"
    /\ format_mapping = <<Field("a", stringValue(<<>>))>>
    /\ Leaves = {Providers(<<PlainStringFormatter(<<>>)>>)}
    /\ output_struct["a"] = stringValue(<<>>)

\* C14: while any number of calls of formatWithContext run on one compiled
\* formatter, flat or structured, their steps interleaved in any order and
\* their contexts different, the plan stays equal to what the constructor
\* compiled; every running call has accumulated exactly what its own
\* context gives for the part of the plan it has passed; and every call
\* returns what the same call returns when it runs alone.
C14_PlanReadOnlyCallsIsolated ==
    /\ (calls # <<>> /\ IsFlat) =>
          providers_ = parse(format, builtin_parsers, command_parsers).formatters
    /\ (calls # <<>> /\ ~IsFlat) =>
          struct_output_format_ =
              toFormatMapValue(format_mapping, builtin_parsers, command_parsers)
    /\ \A t \in DOMAIN calls :
          LET c == calls[t]
          IN IF IsFlat
             THEN /\ c.pc = "running" =>
                        c.acc = FormatProviders(SubSeq(providers_, 1, c.next - 1),
                                                c.context,
                                                EmptyValueString(omit_empty_values))
                  /\ c.pc = "returned" =>
                        c.result = FormatProviders(providers_, c.context,
                                                   EmptyValueString(omit_empty_values))
             ELSE /\ c.pc = "running" =>
                        c.acc = [i \in 1..(c.next - 1) |->
                                    visit(LeafSeq(struct_output_format_)[i],
                                          c.context, Options)]
                  /\ c.pc = "returned" =>
                        c.result = structFormatWithContext(struct_output_format_,
                                                           c.context, Options)

\* C14's case: two calls with different contexts, the first still in the
\* middle of the plan when the second has returned its own
\* result; on a structured plan and on a flat plan.
C14_Witness ==
    /\ calls # <<>>
    /\ calls[1].pc = "running"
    /\ calls[1].next = 2
    /\ calls[2].pc = "returned"
    /\ calls[1].context # calls[2].context
    /\ calls[1].acc # <<>>
    /\ \/ /\ ~IsFlat
          /\ Len(LeafSeq(struct_output_format_)) >= 2
          /\ calls[2].result # NoStruct
       \/ /\ IsFlat
          /\ Len(providers_) >= 2
          /\ calls[2].result # calls[1].acc

=============================================================================
